---- MODULE Spec2Model ----
(***************************************************************************)
(* Model of heuristic_worker.py: the incremental, parallel scoring         *)
(* pipeline (run_cli) and the event readers it is built on                 *)
(* (read_gzipped_file, combat_dir_iterator, get_combat_dirs,               *)
(* worker_entrypoint).                                                     *)
(***************************************************************************)
EXTENDS Integers, Sequences, FiniteSets, TLC

(***************************************************************************)
(* Bounds of the model.                                                    *)
(***************************************************************************)
\* Largest number of unit directories under the dataset root.
MaxUnits == 2
\* Largest number of lines in one log file.
MaxLines == 1
\* Largest size of the worker pool of process_map (host dependent).
MaxWorkers == 2
\* Units per task of process_map.  The source passes chunksize=10; the model
\* scales it to the unit count so that a dataset spans several tasks.
ChunkSize == 1

(***************************************************************************)
(* Generic helpers.                                                        *)
(***************************************************************************)
\* All enumeration orders of a finite set (what os.scandir / glob may return).
Perms(S) ==
    { p \in [1..Cardinality(S) -> S] : \A a \in S : \E i \in DOMAIN p : p[i] = a }

Min(a, b) == IF a < b THEN a ELSE b

(***************************************************************************)
(* Files, directories, datasets.                                           *)
(***************************************************************************)
\* File names that may occur in a unit directory, in lexicographic order.
FileOrder == <<"a.gz", "b.gz", "c.txt">>
FileNames == { FileOrder[i] : i \in DOMAIN FileOrder }
NameRank(n) == CHOOSE i \in DOMAIN FileOrder : FileOrder[i] = n
\* fnmatch of the pattern "*.gz".
MatchesGz(n) == n \in {"a.gz", "b.gz"}

\* A line of a log file: the JSON of a message event, of a command event, or
\* text that is not JSON.
Lines == {"m", "c", "bad"}
\* How the compressed stream ends after its readable lines: cleanly, with
\* an invalid gzip member (bad magic, CRC mismatch: gzip.BadGzipFile), or
\* truncated before the end-of-stream marker (EOFError).
FileEnds == {"eof", "badgzip", "eoferror"}
LineSeqs == UNION { [1..n -> Lines] : n \in 0..MaxLines }
FileContents == [lines : LineSeqs, end : FileEnds]

File(lines, end) == [lines |-> lines, end |-> end]

\* Every directory over FileNames (a function from the names present to
\* the contents).
AllDirs == UNION { [S -> FileContents] : S \in SUBSET FileNames }

\* Unit identifiers (directory base names), in lexicographic order.
UnitNames == <<"u1", "u2", "u3", "u4", "u5", "u6", "u7", "u8", "u9">>
UnitRank(name) == CHOOSE i \in DOMAIN UnitNames : UnitNames[i] = name

(***************************************************************************)
(* Event Source Reader and Unit Aggregator.                                *)
(***************************************************************************)
\* Index of the first line of a file that is not JSON, 0 when there is none.
FirstBadLine(lines) ==
    IF \E i \in DOMAIN lines : lines[i] = "bad"
    THEN CHOOSE i \in DOMAIN lines :
            lines[i] = "bad" /\ \A j \in 1..(i - 1) : lines[j] # "bad"
    ELSE 0

\* Variant of read_gzipped_file: a line that is not JSON is handled like a
\* corrupt container, the file stops there with a warning.
read_gzipped_file_CatchAll(f) ==
    LET k == FirstBadLine(f.lines)
    IN  IF k > 0
        THEN [events |-> SubSeq(f.lines, 1, k - 1), outcome |-> "warned"]
        ELSE [events  |-> f.lines,
              outcome |-> CASE f.end = "eof"     -> "ok"
                            [] f.end = "badgzip" -> "warned"
                            [] OTHER             -> "raised"]

\* read_gzipped_file as a generator run to its end: the events it yields
\* before it stops, and how it stops.  "ok": the stream ended; "warned":
\* gzip.BadGzipFile was caught and logged; "raised": an exception left the
\* generator (json.JSONDecodeError of a line, EOFError of a truncated stream).
\* The lines read before the stream is found invalid have been yielded.
read_gzipped_file(f) ==
    LET k == FirstBadLine(f.lines)
    IN  IF k > 0
        THEN [events |-> SubSeq(f.lines, 1, k - 1), outcome |-> "raised"]
        ELSE [events  |-> f.lines,
              outcome |-> CASE f.end = "eof"     -> "ok"
                            [] f.end = "badgzip" -> "warned"
                            [] OTHER             -> "raised"]

\* glob.glob("*.gz", root_dir=dirpath): the matching names, as a set; the
\* order of the returned list is the directory's enumeration order.
glob(dir) == { n \in DOMAIN dir : MatchesGz(n) }

\* Variant of sorted: the list is left in the order glob returned it.
sorted_Not(s) == s

\* sorted() of a list of file names.
RECURSIVE InsertName(_, _)
InsertName(n, s) ==
    IF s = <<>> THEN <<n>>
    ELSE IF NameRank(n) < NameRank(Head(s)) THEN <<n>> \o s
    ELSE <<Head(s)>> \o InsertName(n, Tail(s))

RECURSIVE sorted(_)
sorted(s) == IF s = <<>> THEN <<>> ELSE InsertName(Head(s), sorted(Tail(s)))

\* The loop of combat_dir_iterator over the file names fps, acc being what
\* was yielded so far.
RECURSIVE YieldFrom(_, _, _)
YieldFrom(dir, fps, acc) ==
    IF fps = <<>> THEN [acc EXCEPT !.outcome = "ok"]
    ELSE LET r   == read_gzipped_file(dir[Head(fps)])
             nxt == [events  |-> acc.events \o r.events,
                     outcome |-> acc.outcome,
                     warned  |-> IF r.outcome = "warned"
                                 THEN acc.warned \cup {Head(fps)}
                                 ELSE acc.warned]
         IN  IF r.outcome = "raised"
             THEN [nxt EXCEPT !.outcome = "raised"]
             ELSE YieldFrom(dir, Tail(fps), nxt)

\* combat_dir_iterator consumed to its end; listing is the list glob returns.
combat_dir_iterator(dir, listing) ==
    YieldFrom(dir, sorted(listing),
              [events |-> <<>>, outcome |-> "pending", warned |-> {}])

\* The scoring function (heuristics.message_to_command_ratio in run_cli): a
\* pure function of the event sequence, external to the pipeline.  The model
\* scores a unit by its number of message events.
heuristic(events) == Cardinality({ i \in DOMAIN events : events[i] = "m" })

\* os.path.basename of the path of unit directory u.
basename(u) == UnitNames[u]

\* Variant of worker_entrypoint: os.path.dirname in place of os.path.basename.
worker_entrypoint_Dirname(u, events) == <<"data", heuristic(events)>>

\* worker_entrypoint applied to unit directory u whose iterator yields events.
worker_entrypoint(u, events) == <<basename(u), heuristic(events)>>

\* The names of heuristics.__all__, the registered scoring functions.
Registered ==
    {"event_count", "message_count", "message_to_command_ratio",
     "average_message_length", "avg_num_words_between_commands",
     "num_participants"}

\* The attributes of the package heuristics: the registered functions, the
\* names it imports from typing, its submodules and its type alias.
ModuleAttrs ==
    Registered \cup {"Callable", "Iterable", "count", "ratio", "zhu", "Heuristic"}

\* get_heuristic: getattr(heuristics, name), the attribute or AttributeError.
get_heuristic(name) == IF name \in ModuleAttrs THEN name ELSE "AttributeError"

\* The attribute is a scoring function (calling any other one raises
\* TypeError).
IsHeuristic(name) == name \in Registered

\* The heuristic names run_cli is configured with.
HeuristicNames == {"message_to_command_ratio", "Heuristic", "no_such_heuristic"}

(***************************************************************************)
(* Datasets, fingerprint, result table.                                    *)
(***************************************************************************)
DirEmpty == <<>>
DirAB ==
    ("b.gz" :> File(<<"m">>, "eof")) @@ ("a.gz" :> File(<<"c">>, "eof"))
        @@ ("c.txt" :> File(<<"m">>, "eof"))
DirCorrupt ==
    ("a.gz" :> File(<<"m">>, "badgzip")) @@ ("b.gz" :> File(<<"m">>, "eof"))
DirBadLine == ("a.gz" :> File(<<"bad">>, "eof"))

\* The unit directories the pipeline is run on.
UnitDirs == {DirEmpty, DirAB, DirCorrupt, DirBadLine}

\* A dataset: the unit directories under the root, by unit.
Datasets == UNION { [S -> UnitDirs] : S \in SUBSET (1..MaxUnits) }

\* The files dirhash(..., match=("*.gz",)) covers: relative path and content.
MatchedFiles(d) ==
    UNION { { <<basename(u), n, d[u][n]>> : n \in { m \in DOMAIN d[u] : MatchesGz(m) } }
            : u \in DOMAIN d }

\* dirhash.dirhash(data_dir_path, "md5", match=("*.gz",), ...): a digest that
\* is injective on what it covers.
dirhash(d) == MatchedFiles(d)

\* get_combat_dirs: the subdirectories of the root (as a set; os.scandir
\* fixes the order of the list).
get_combat_dirs(d) == DOMAIN d

\* The file at result_file_path: whether it exists, whether it may be
\* opened, and its rows (each a sequence of fields).
NoFile == [exists |-> FALSE, perm |-> TRUE, rows |-> <<>>]
TableFile(rows) == [exists |-> TRUE, perm |-> TRUE, rows |-> rows]
\* Variant of HeaderRow: the header row holds the key only.
HeaderRow_KeyOnly(checksum) == <<"checksum">>
HeaderRow(checksum) == <<"checksum", checksum>>

StaleChecksum == { <<"u9", "a.gz", File(<<"c">>, "eof")>> }
StaleTable == TableFile(<<HeaderRow(StaleChecksum), <<"u9", 0>>>>)
MalformedTables ==
    { TableFile(<<>>),
      TableFile(<< <<>> >>),
      TableFile(<< <<"checksum">> >>),
      TableFile(<< <<"checksum", StaleChecksum, "x">>, <<"u9", 0>> >>),
      [exists |-> TRUE, perm |-> FALSE, rows |-> <<HeaderRow(StaleChecksum)>>] }
InitTables == {NoFile, StaleTable} \cup MalformedTables

\* The cache check of run_cli (lines 77-85): "hit", "miss", or "error" when
\* an exception other than FileNotFoundError leaves the try block.
CacheLookup(file, checksum) ==
    IF ~file.exists THEN "miss"                      \* FileNotFoundError
    ELSE IF ~file.perm THEN "error"                  \* PermissionError
    ELSE IF file.rows = <<>> THEN "error"            \* StopIteration
    ELSE IF Len(file.rows[1]) # 2 THEN "error"       \* ValueError (unpack)
    ELSE IF file.rows[1][2] = checksum THEN "hit"
    ELSE "miss"

\* Variant of AfterCacheCheck: the return of line 83 is missing, a hit falls
\* through to the execution part.
AfterCacheCheck_NoReturn(outcome) ==
    CASE outcome = "hit"  -> "cache_miss"
      [] outcome = "miss" -> "cache_miss"
      [] OTHER            -> "failed"

\* Where run_cli goes after the cache check.
AfterCacheCheck(outcome) ==
    CASE outcome = "hit"  -> "done"
      [] outcome = "miss" -> "cache_miss"
      [] OTHER            -> "failed"

\* results.sort(key=lambda pair: pair[1]): a stable sort by score.
RECURSIVE InsertPair(_, _)
InsertPair(p, s) ==
    IF s = <<>> THEN <<p>>
    ELSE IF p[2] < Head(s)[2] THEN <<p>> \o s
    ELSE <<Head(s)>> \o InsertPair(p, Tail(s))

RECURSIVE SortPrefix(_, _)
SortPrefix(s, k) ==
    IF k = 0 THEN <<>> ELSE InsertPair(s[k], SortPrefix(s, k - 1))

sort_by_score(s) == SortPrefix(s, Len(s))

\* Tasks of process_map: unit positions 1..n of the list cut into chunks.
NumChunks(n) == (n + ChunkSize - 1) \div ChunkSize
ChunkUnits(c, n) == ((c - 1) * ChunkSize + 1) .. Min(c * ChunkSize, n)

\* Variant of process_map: the return values in the order the tasks completed.
RECURSIVE process_map_AsCompleted(_, _, _)
process_map_AsCompleted(scored, finished, n) ==
    IF finished = <<>> THEN <<>>
    ELSE LET lo == (Head(finished) - 1) * ChunkSize + 1
             hi == Min(Head(finished) * ChunkSize, n)
         IN  [k \in 1..(hi - lo + 1) |-> scored[lo + k - 1]]
                \o process_map_AsCompleted(scored, Tail(finished), n)

\* The list process_map returns: the workers' return values in the order of
\* the input list, whatever order the tasks completed in.
process_map(scored, finished, n) == [i \in 1..n |-> scored[i]]

\* Variant of open_w: the file is opened in append mode.
open_a(file) == TableFile(file.rows)

\* open(result_file_path, "w"): the file is created or truncated.
open_w(file) == TableFile(<<>>)

(***************************************************************************)
(* State.                                                                  *)
(***************************************************************************)
VARIABLES
    data,              \* the dataset under data_dir_path
    result_file,       \* the file at result_file_path
    pc,                \* where run_cli is
    dataset_checksum,  \* run_cli's dataset_checksum
    cache,             \* outcome of the cache check of this run ("none" before it)
    dirs,              \* the list get_combat_dirs returned
    max_workers,       \* size of the worker pool of process_map
    tasks,             \* state of each task (chunk) of process_map
    scored,            \* return values of worker_entrypoint, by list position
    finished,          \* the tasks in the order they completed
    results,           \* run_cli's results
    log,               \* files a warning was logged for in this run
    opened,            \* the result file was opened for writing in this run
    file0,             \* result_file as it was when this run started
    repeat,            \* this run follows a successful cache-miss run, dataset unchanged
    torn,              \* this run started on a file an interrupted write left incomplete
    heuristic_name,    \* run_cli's heuristic_name
    root_ok,           \* data_dir_path is a readable directory
    combat_dir,        \* reader check: the unit directory read
    listing,           \* reader check: the list glob returned for it
    out                \* reader check: what combat_dir_iterator produced

runVars == <<pc, dataset_checksum, cache, dirs, max_workers, tasks, scored,
             finished, results, log, opened, file0, repeat>>
readerVars == <<combat_dir, listing, out>>
configVars == <<heuristic_name, root_ok>>
vars == <<data, result_file, runVars, torn, configVars, readerVars>>

Pending == [events |-> <<>>, outcome |-> "pending", warned |-> {}]

\* The state before any run, but for the configuration.
InitRun ==
    /\ data \in Datasets
    /\ result_file \in InitTables
    /\ pc = "idle"
    /\ dataset_checksum = {}
    /\ cache = "none"
    /\ dirs = <<>>
    /\ max_workers = 1
    /\ tasks = <<>>
    /\ scored = <<>>
    /\ finished = <<>>
    /\ results = <<>>
    /\ log = {}
    /\ opened = FALSE
    /\ file0 = result_file
    /\ repeat = FALSE
    /\ torn = FALSE
    /\ combat_dir = DirEmpty
    /\ listing = <<>>
    /\ out = Pending

\* run_cli as written: the heuristic name of line 65, an existing dataset root.
Init ==
    /\ InitRun
    /\ heuristic_name = "message_to_command_ratio"
    /\ root_ok = TRUE

(***************************************************************************)
(* run_cli.                                                                *)
(***************************************************************************)
\* A run starts (lines 60-72); the previous one, if any, has ended.
StartRun ==
    /\ pc \in {"idle", "done", "failed", "killed"}
    /\ pc' = IF get_heuristic(heuristic_name) = "AttributeError"
             THEN "failed" ELSE "fingerprinting"
    /\ torn' = IF opened
               THEN pc = "killed" /\ Len(result_file.rows) < 1 + Len(results)
               ELSE torn
    /\ repeat' = (pc = "done" /\ cache = "miss")
    /\ file0' = result_file
    /\ dataset_checksum' = {}
    /\ cache' = "none"
    /\ dirs' = <<>>
    /\ max_workers' = 1
    /\ tasks' = <<>>
    /\ scored' = <<>>
    /\ finished' = <<>>
    /\ results' = <<>>
    /\ log' = {}
    /\ opened' = FALSE
    /\ UNCHANGED <<data, result_file, readerVars, configVars>>

\* Line 73: the dataset is hashed; dirhash raises when the root cannot be
\* read and when nothing matches.
Fingerprint ==
    /\ pc = "fingerprinting"
    /\ IF ~root_ok \/ MatchedFiles(data) = {}
       THEN pc' = "failed" /\ UNCHANGED dataset_checksum
       ELSE pc' = "cache_check" /\ dataset_checksum' = dirhash(data)
    /\ UNCHANGED <<data, result_file, cache, dirs, max_workers, tasks, scored,
                   finished, results, log, opened, file0, repeat,
                   readerVars, torn, configVars>>

\* Lines 77-85: the existing table, if any, is read and compared.
CacheCheck ==
    /\ pc = "cache_check"
    /\ cache' = CacheLookup(result_file, dataset_checksum)
    /\ pc' = AfterCacheCheck(cache')
    /\ UNCHANGED <<data, result_file, dataset_checksum, dirs, max_workers,
                   tasks, scored, finished, results, log, opened, file0,
                   repeat, readerVars, torn, configVars>>

\* Line 88, first half: get_combat_dirs lists the units in the order
\* os.scandir enumerates them, process_map cuts the list into tasks and
\* hands them to a pool of max_workers processes.
Dispatch ==
    /\ pc = "cache_miss"
    /\ \E order \in Perms(get_combat_dirs(data)) : dirs' = order
    /\ \E w \in 1..MaxWorkers : max_workers' = w
    /\ tasks' = [c \in 1..NumChunks(Cardinality(get_combat_dirs(data))) |-> "queued"]
    /\ pc' = "scoring"
    /\ UNCHANGED <<data, result_file, dataset_checksum, cache, scored,
                   finished, results, log, opened, file0, repeat,
                   readerVars, torn, configVars>>

\* A free worker takes a queued task.
StartTask(c) ==
    /\ pc = "scoring"
    /\ tasks[c] = "queued"
    /\ Cardinality({ t \in DOMAIN tasks : tasks[t] = "running" }) < max_workers
    /\ tasks' = [tasks EXCEPT ![c] = "running"]
    /\ UNCHANGED <<data, result_file, pc, dataset_checksum, cache, dirs,
                   max_workers, scored, finished, results, log, opened, file0,
                   repeat, readerVars, torn, configVars>>

\* The worker running task c applies worker_entrypoint to the next unit of
\* its chunk; an exception (of the iterator, or TypeError when the object
\* get_heuristic returned is no function) ends the task.
ScoreUnit(c) ==
    /\ pc = "scoring"
    /\ tasks[c] = "running"
    /\ LET todo == ChunkUnits(c, Len(dirs)) \ DOMAIN scored
           i    == CHOOSE k \in todo : \A j \in todo : k <= j
           u    == dirs[i]
       IN  \E ls \in Perms(glob(data[u])) :
             LET r == combat_dir_iterator(data[u], ls)
             IN  /\ log' = log \cup { <<basename(u), n>> : n \in r.warned }
                 /\ IF r.outcome = "raised" \/ ~IsHeuristic(heuristic_name)
                    THEN /\ tasks' = [tasks EXCEPT ![c] = "raised"]
                         /\ UNCHANGED <<scored, finished>>
                    ELSE /\ scored' = scored @@ (i :> worker_entrypoint(u, r.events))
                         /\ IF todo = {i}
                            THEN /\ tasks' = [tasks EXCEPT ![c] = "done"]
                                 /\ finished' = Append(finished, c)
                            ELSE UNCHANGED <<tasks, finished>>
    /\ UNCHANGED <<data, result_file, pc, dataset_checksum, cache, dirs,
                   max_workers, results, opened, file0, repeat,
                   readerVars, torn, configVars>>

\* Variant of AfterProcessMap: after a worker's exception the units are
\* dispatched again.
AfterProcessMap_Retry(ts) ==
    IF \E c \in DOMAIN ts : ts[c] = "raised" THEN "cache_miss" ELSE "aggregating"

\* Variant of AfterProcessMap: a worker's exception is swallowed.
AfterProcessMap_Swallow(ts) == "aggregating"

\* What process_map does once the tasks up to the first failed one have
\* ended: it re-raises the worker's exception, or returns the list.
AfterProcessMap(ts) ==
    IF \E c \in DOMAIN ts : ts[c] = "raised" THEN "failed" ELSE "aggregating"

\* Variant of ProcessMapReady: process_map hands back a lazy iterator, it
\* does not wait for the tasks.
ProcessMapReady_Lazy(ts) == TRUE

\* Variant of ProcessMapReady: process_map waits for every task to return a
\* value and ignores a task that raised.
ProcessMapReady_AllDone(ts) == \A c \in DOMAIN ts : ts[c] = "done"

\* process_map blocks until the results are consumed in input order: every
\* task has returned, or a task raised and the tasks before it have returned.
ProcessMapReady(ts) ==
    \/ \A c \in DOMAIN ts : ts[c] = "done"
    \/ \E c \in DOMAIN ts :
          /\ ts[c] = "raised"
          /\ \A b \in 1..(c - 1) : ts[b] = "done"

\* Line 88, second half: process_map returns or raises.
ProcessMapEnd ==
    /\ pc = "scoring"
    /\ ProcessMapReady(tasks)
    /\ pc' = AfterProcessMap(tasks)
    /\ results' = IF \A c \in DOMAIN tasks : tasks[c] = "done"
                  THEN process_map(scored, finished, Len(dirs))
                  ELSE results
    /\ UNCHANGED <<data, result_file, dataset_checksum, cache, dirs,
                   max_workers, tasks, scored, finished, log, opened, file0,
                   repeat, readerVars, torn, configVars>>

\* Line 89.
SortResults ==
    /\ pc = "aggregating"
    /\ results' = sort_by_score(results)
    /\ pc' = "writing"
    /\ UNCHANGED <<data, result_file, dataset_checksum, cache, dirs,
                   max_workers, tasks, scored, finished, log, opened, file0,
                   repeat, readerVars, torn, configVars>>

\* Lines 93-94: the result file is opened for writing.
OpenForWrite ==
    /\ pc = "writing"
    /\ result_file' = open_w(result_file)
    /\ opened' = TRUE
    /\ pc' = "write_header"
    /\ UNCHANGED <<data, dataset_checksum, cache, dirs, max_workers, tasks,
                   scored, finished, results, log, file0, repeat,
                   readerVars, torn, configVars>>

\* Line 96.
WriteHeader ==
    /\ pc = "write_header"
    /\ result_file' = [result_file EXCEPT
                         !.rows = Append(@, HeaderRow(dataset_checksum))]
    /\ pc' = "write_rows"
    /\ UNCHANGED <<data, dataset_checksum, cache, dirs, max_workers, tasks,
                   scored, finished, results, log, opened, file0, repeat, readerVars, torn, configVars>>

\* Line 97: writerows writes the next row of results.
WriteRow ==
    /\ pc = "write_rows"
    /\ Len(result_file.rows) - 1 < Len(results)
    /\ result_file' = [result_file EXCEPT
                         !.rows = Append(@, results[Len(result_file.rows)])]
    /\ UNCHANGED <<data, runVars, readerVars, torn, configVars>>

\* Lines 97-98: all rows are written, the file is closed, run_cli returns.
CloseFile ==
    /\ pc = "write_rows"
    /\ Len(result_file.rows) - 1 = Len(results)
    /\ pc' = "done"
    /\ UNCHANGED <<data, result_file, dataset_checksum, cache, dirs,
                   max_workers, tasks, scored, finished, results, log, opened,
                   file0, repeat, readerVars, torn, configVars>>

\* Between runs the dataset changes: a unit directory is added, removed or
\* replaced.  No process of run_cli is left.
ChangeDataset ==
    /\ pc \in {"idle", "done", "failed", "killed"}
    /\ \E u \in 1..MaxUnits :
          \/ /\ u \in DOMAIN data
             /\ data' = [v \in DOMAIN data \ {u} |-> data[v]]
          \/ \E dir \in UnitDirs :
                /\ IF u \in DOMAIN data THEN data[u] # dir ELSE TRUE
                /\ data' = [v \in DOMAIN data \cup {u} |->
                              IF v = u THEN dir ELSE data[v]]
    /\ pc' = "idle"
    /\ file0' = result_file
    /\ dataset_checksum' = {}
    /\ cache' = "none"
    /\ dirs' = <<>>
    /\ max_workers' = 1
    /\ tasks' = <<>>
    /\ scored' = <<>>
    /\ finished' = <<>>
    /\ results' = <<>>
    /\ log' = {}
    /\ opened' = FALSE
    /\ repeat' = FALSE
    /\ torn' = FALSE
    /\ UNCHANGED <<result_file, readerVars, configVars>>

Next ==
    \/ StartRun
    \/ Fingerprint
    \/ CacheCheck
    \/ Dispatch
    \/ \E c \in DOMAIN tasks : StartTask(c)
    \/ \E c \in DOMAIN tasks : ScoreUnit(c)
    \/ ProcessMapEnd
    \/ SortResults
    \/ OpenForWrite
    \/ WriteHeader
    \/ WriteRow
    \/ CloseFile
    \/ ChangeDataset

Spec == Init /\ [][Next]_vars

(***************************************************************************)
(* run_cli with interruption: the process may be killed at any point of a  *)
(* run; what it had written to the result file stays.                      *)
(***************************************************************************)
InRun ==
    {"fingerprinting", "cache_check", "cache_miss", "scoring", "aggregating",
     "writing", "write_header", "write_rows"}

Interrupt ==
    /\ pc \in InRun
    /\ pc' = "killed"
    /\ UNCHANGED <<data, result_file, dataset_checksum, cache, dirs,
                   max_workers, tasks, scored, finished, results, log, opened,
                   file0, repeat, readerVars, torn, configVars>>

NextInterrupt == Next \/ Interrupt

SpecInterrupt == Init /\ [][NextInterrupt]_vars

(***************************************************************************)
(* run_cli under every configuration: any heuristic name, the dataset root *)
(* present or not.                                                         *)
(***************************************************************************)
InitConfig ==
    /\ InitRun
    /\ heuristic_name \in HeuristicNames
    /\ root_ok \in BOOLEAN

SpecConfig == InitConfig /\ [][Next]_vars

(***************************************************************************)
(* Runs of run_cli over one dataset, every step of the process and of its  *)
(* workers taken eventually (no step of the code blocks for ever: the      *)
(* scoring function terminates, the pool schedules every task).            *)
(***************************************************************************)
NextRun ==
    \/ StartRun
    \/ Fingerprint
    \/ CacheCheck
    \/ Dispatch
    \/ \E c \in DOMAIN tasks : StartTask(c)
    \/ \E c \in DOMAIN tasks : ScoreUnit(c)
    \/ ProcessMapEnd
    \/ SortResults
    \/ OpenForWrite
    \/ WriteHeader
    \/ WriteRow
    \/ CloseFile

Fairness ==
    /\ WF_vars(Fingerprint)
    /\ WF_vars(CacheCheck)
    /\ WF_vars(Dispatch)
    /\ WF_vars(\E c \in DOMAIN tasks : StartTask(c))
    /\ WF_vars(\E c \in DOMAIN tasks : ScoreUnit(c))
    /\ WF_vars(ProcessMapEnd)
    /\ WF_vars(SortResults)
    /\ WF_vars(OpenForWrite)
    /\ WF_vars(WriteHeader)
    /\ WF_vars(WriteRow)
    /\ WF_vars(CloseFile)

SpecLive == Init /\ [][NextRun]_vars /\ Fairness

(***************************************************************************)
(* The readers on their own: combat_dir_iterator applied to every unit     *)
(* directory over FileNames and every order glob may list it in.           *)
(***************************************************************************)
InitReader ==
    /\ data = <<>>
    /\ result_file = NoFile
    /\ pc = "idle"
    /\ dataset_checksum = {}
    /\ cache = "none"
    /\ dirs = <<>>
    /\ max_workers = 1
    /\ tasks = <<>>
    /\ scored = <<>>
    /\ finished = <<>>
    /\ results = <<>>
    /\ log = {}
    /\ opened = FALSE
    /\ file0 = NoFile
    /\ repeat = FALSE
    /\ torn = FALSE
    /\ heuristic_name = "message_to_command_ratio"
    /\ root_ok = TRUE
    /\ combat_dir \in AllDirs
    /\ listing \in Perms(glob(combat_dir))
    /\ out = Pending

IterateDir ==
    /\ out.outcome = "pending"
    /\ out' = combat_dir_iterator(combat_dir, listing)
    /\ UNCHANGED <<data, result_file, runVars, combat_dir, listing, torn, configVars>>

NextReader == IterateDir

SpecReader == InitReader /\ [][NextReader]_vars

(***************************************************************************)
(* Definitions the properties are stated with.                             *)
(***************************************************************************)
\* A result table whose first row can be read as (key, fingerprint).
WellFormed(file) ==
    file.exists /\ file.perm /\ file.rows # <<>> /\ Len(file.rows[1]) = 2
Malformed(file) == file.exists /\ ~WellFormed(file)

\* A cache-miss run has ended successfully.
MissDone == pc = "done" /\ cache = "miss"

\* The .gz files of a directory, by rank in FileOrder.
IsLog(dir, k) == FileOrder[k] \in DOMAIN dir /\ MatchesGz(FileOrder[k])

\* The events read_gzipped_file yields for the .gz files of a directory,
\* in lexicographic file order.
RECURSIVE EventsUpTo(_, _)
EventsUpTo(dir, k) ==
    IF k = 0 THEN <<>>
    ELSE EventsUpTo(dir, k - 1)
            \o (IF IsLog(dir, k)
                THEN read_gzipped_file(dir[FileOrder[k]]).events ELSE <<>>)
UnitEvents(dir) == EventsUpTo(dir, Len(FileOrder))

\* The lines of the .gz files of a directory whose stream ends as given by
\* ends, in lexicographic file order.
RECURSIVE LinesUpTo(_, _, _)
LinesUpTo(dir, k, ends) ==
    IF k = 0 THEN <<>>
    ELSE LinesUpTo(dir, k - 1, ends)
            \o (IF IsLog(dir, k) /\ dir[FileOrder[k]].end \in ends
                THEN dir[FileOrder[k]].lines ELSE <<>>)

\* Every line of every .gz file of the directory is JSON.
NoBadLine(dir) ==
    \A k \in DOMAIN FileOrder :
        IsLog(dir, k) => \A i \in DOMAIN dir[FileOrder[k]].lines :
                            dir[FileOrder[k]].lines[i] # "bad"
EndsIn(dir, ends) ==
    \A k \in DOMAIN FileOrder : IsLog(dir, k) => dir[FileOrder[k]].end \in ends
CorruptLogs(dir) ==
    { FileOrder[k] : k \in { j \in DOMAIN FileOrder :
                               IsLog(dir, j) /\ dir[FileOrder[j]].end = "badgzip" } }

\* The table a dataset and an enumeration order of its units determine.
ExpectedRows(d, order) ==
    <<HeaderRow(dirhash(d))>>
        \o sort_by_score([i \in 1..Len(order) |->
              <<basename(order[i]), heuristic(UnitEvents(d[order[i]]))>>])

(***************************************************************************)
(* Properties.                                                             *)
(***************************************************************************)
\* C1: when the table present at the start of a run is well-formed and its
\* stored fingerprint equals the freshly computed one, the cache check is a
\* hit and the run ends successfully: no unit is dispatched or scored, the
\* result file is not opened for writing and its contents stay as they were.
C1_CacheHitFrame ==
    (cache # "none" /\ WellFormed(file0) /\ file0.rows[1][2] = dataset_checksum)
        => /\ cache = "hit"
           /\ pc = "done"
           /\ tasks = <<>>
           /\ scored = <<>>
           /\ ~opened
           /\ result_file = file0
C1_Witness ==
    cache = "hit" /\ pc = "done" /\ Len(file0.rows) > 1 /\ result_file = file0

\* C2: a run started after a successful cache-miss run, with the dataset
\* unchanged, is a cache hit: it never fails, scores no unit and leaves the
\* result table exactly as the first run wrote it.
C2_SecondRunIsHit ==
    repeat => /\ pc \in {"fingerprinting", "cache_check", "done"}
              /\ cache \in {"none", "hit"}
              /\ tasks = <<>>
              /\ scored = <<>>
              /\ ~opened
              /\ result_file = file0
C2_Witness == repeat /\ pc = "done" /\ cache = "hit" /\ Len(result_file.rows) > 2

\* C3: a successful run that found a well-formed table with another
\* fingerprint has scored every unit, and the table now consists of the new
\* fingerprint header followed by the rows computed in this run, nothing else.
C3_StaleTableReplaced ==
    (MissDone /\ WellFormed(file0)) =>
        /\ file0.rows[1][2] # dataset_checksum
        /\ dataset_checksum = dirhash(data)
        /\ { dirs[i] : i \in DOMAIN dirs } = DOMAIN data
        /\ DOMAIN scored = 1..Cardinality(DOMAIN data)
        /\ Len(results) = Len(dirs)
        /\ \A k \in DOMAIN results : \E i \in DOMAIN scored : results[k] = scored[i]
        /\ result_file = TableFile(<<HeaderRow(dataset_checksum)>> \o results)
C3_Witness ==
    /\ MissDone /\ WellFormed(file0)
    /\ Len(file0.rows) > 1 /\ Len(result_file.rows) > 2
    /\ \A k \in DOMAIN result_file.rows : result_file.rows[k] # file0.rows[2]

\* C4: a malformed or unreadable file at the result-table location is
\* treated by the cache check as a miss, the run does not fail on it.
C4_MalformedIsMiss ==
    (Malformed(file0) /\ cache # "none") => (cache = "miss" /\ pc # "failed")

\* C5: the rows written after the header are in ascending order of score,
\* and rows of equal score are in lexicographic order of unit identifier.
C5_SortedWithTieBreak ==
    MissDone =>
        \A j, k \in 2..Len(result_file.rows) :
            j < k =>
                \/ result_file.rows[j][2] < result_file.rows[k][2]
                \/ /\ result_file.rows[j][2] = result_file.rows[k][2]
                   /\ UnitRank(result_file.rows[j][1]) < UnitRank(result_file.rows[k][1])

\* C6: the table a successful cache-miss run leaves is determined by the
\* dataset and its enumeration order alone: it is the same for every pool
\* size and every order in which the workers' tasks complete.
C6_TableIndependentOfWorkers ==
    MissDone => result_file.rows = ExpectedRows(data, dirs)
C6_Witness ==
    /\ MissDone
    /\ max_workers > 1
    /\ Len(finished) > 1
    /\ finished[1] > finished[2]
    /\ results[1][2] = results[2][2]

\* C7: after a successful cache-miss run the table has exactly one row for
\* each unit directory of the dataset and no other row, each with the score
\* of that unit's own events; the unit identifiers are pairwise distinct.
C7_OneRowPerUnit ==
    MissDone =>
        LET rows == Tail(result_file.rows)
        IN  /\ Len(rows) = Cardinality(DOMAIN data)
            /\ \A u \in DOMAIN data : \E k \in DOMAIN rows :
                  rows[k] = <<basename(u), heuristic(UnitEvents(data[u]))>>
            /\ \A j, k \in DOMAIN rows : j # k => rows[j][1] # rows[k][1]
C7_Witness ==
    /\ MissDone
    /\ Cardinality(DOMAIN data) > 1
    /\ \E j, k \in 2..Len(result_file.rows) :
          result_file.rows[j][2] # result_file.rows[k][2]

\* C8: for a unit directory whose .gz files are all valid, and for every
\* order glob lists them in, combat_dir_iterator yields the concatenation of
\* the files' events in lexicographic file-name order and does not raise; a
\* directory without .gz files yields the empty sequence.
C8_LexicographicConcat ==
    (out.outcome # "pending" /\ NoBadLine(combat_dir) /\ EndsIn(combat_dir, {"eof"}))
        => /\ out.outcome = "ok"
           /\ out.events = LinesUpTo(combat_dir, Len(FileOrder), {"eof"})
C8_Witness ==
    /\ out.outcome = "ok"
    /\ NoBadLine(combat_dir) /\ EndsIn(combat_dir, {"eof"})
    /\ listing = <<"b.gz", "a.gz">>
    /\ combat_dir["a.gz"].lines # <<>>
    /\ combat_dir["b.gz"].lines # <<>>
    /\ combat_dir["a.gz"].lines # combat_dir["b.gz"].lines

\* C9: in a unit directory whose only defects are invalid gzip members, a
\* corrupt file contributes no event: the iterator does not raise, yields
\* exactly the events of the valid files, and a warning is logged for each
\* corrupt file.
C9_CorruptFileContributesNothing ==
    (/\ out.outcome # "pending"
     /\ NoBadLine(combat_dir)
     /\ EndsIn(combat_dir, {"eof", "badgzip"}))
        => /\ out.outcome = "ok"
           /\ out.warned = CorruptLogs(combat_dir)
           /\ out.events = LinesUpTo(combat_dir, Len(FileOrder), {"eof"})

\* C10: in a run in which the scoring of a unit raised, the result file is
\* never opened for writing and stays as it was when the run started,
\* however many other units were scored; the run does not get past scoring.
C10_FailedUnitNoWrite ==
    (\E c \in DOMAIN tasks : tasks[c] = "raised")
        => /\ ~opened
           /\ result_file = file0
           /\ pc \in {"scoring", "failed"}
C10_Witness ==
    /\ pc = "failed"
    /\ \E c \in DOMAIN tasks : tasks[c] = "raised"
    /\ scored # <<>>
    /\ WellFormed(file0)

\* The table a run that got as far as writing is to leave.
NewTable == TableFile(<<HeaderRow(dataset_checksum)>> \o results)

\* C11: a valid table present when a run starts is never corrupted: at every
\* point of the run, an interrupted one included, the result file holds the
\* complete previous table or the complete new one.
C11_AtomicWrite ==
    WellFormed(file0) => (result_file = file0 \/ result_file = NewTable)

\* C12: a run that starts on a file an interrupted write left incomplete,
\* the dataset being the same, takes the file for a cache miss: it neither
\* accepts it as a hit nor fails on it.
C12_TornTableIsMiss ==
    (torn /\ cache # "none") => (cache = "miss" /\ pc # "failed")

\* The steps of pc the pipeline allows.  Within a run: fingerprinting, cache
\* check, then done on a hit, or dispatch, scoring, aggregation and the
\* write on a miss; failed from the phases an error can occur in.  Between
\* runs: a new run starts (or fails on its configuration), the dataset
\* changes.
PhaseSteps ==
    { <<"fingerprinting", "cache_check">>, <<"fingerprinting", "failed">>,
      <<"cache_check", "done">>, <<"cache_check", "cache_miss">>,
      <<"cache_check", "failed">>,
      <<"cache_miss", "scoring">>,
      <<"scoring", "aggregating">>, <<"scoring", "failed">>,
      <<"aggregating", "writing">>,
      <<"writing", "write_header">>, <<"write_header", "write_rows">>,
      <<"write_rows", "done">> }
    \cup ({"idle", "done", "failed"} \X {"fingerprinting", "failed", "idle"})

\* C13: every run goes through fingerprinting, cache check and then either
\* done (hit) or scoring, aggregation, writing, done (miss), and fails only
\* on an error; the fingerprint is complete when the cache is consulted, no
\* unit is dispatched or scored before the cache check reported a miss and
\* the units were enumerated, and no phase is entered again.
C13_PhaseOrder ==
    [][ /\ (pc' # pc => <<pc, pc'>> \in PhaseSteps)
        /\ (cache' \notin {cache, "none"} =>
                /\ pc = "cache_check"
                /\ dataset_checksum = dirhash(data)
                /\ pc' = AfterCacheCheck(cache'))
        /\ ((tasks = <<>> /\ tasks' # <<>>) =>
                /\ cache = "miss"
                /\ dataset_checksum = dirhash(data)
                /\ { dirs'[i] : i \in DOMAIN dirs' } = get_combat_dirs(data)
                /\ Len(dirs') = Cardinality(get_combat_dirs(data)))
        /\ (scored' \notin {scored, <<>>} => (pc = "scoring" /\ cache = "miss"))
        /\ ((pc' = "failed" /\ pc # "failed") =>
                \/ pc \in {"idle", "done"} /\ get_heuristic(heuristic_name) = "AttributeError"
                \/ pc = "fingerprinting" /\ (~root_ok \/ MatchedFiles(data) = {})
                \/ pc = "cache_check" /\ cache' = "error"
                \/ pc = "scoring" /\ \E c \in DOMAIN tasks : tasks[c] = "raised")
      ]_vars
C13_Witness ==
    /\ MissDone
    /\ file0 = NoFile
    /\ Len(result_file.rows) = 1 + MaxUnits
    /\ Len(finished) = Len(tasks)

\* C14: the result file is written only after process_map has returned,
\* that is after every dispatched unit was scored: while the file is being
\* written, and whenever it differs from what the run found, no task is
\* queued or running; the workers' steps leave the file alone.
C14_WriteAfterWorkers ==
    (\/ opened
     \/ result_file # file0
     \/ pc \in {"aggregating", "writing", "write_header", "write_rows"})
        => /\ \A c \in DOMAIN tasks : tasks[c] = "done"
           /\ DOMAIN scored = 1..Len(dirs)
C14_Witness ==
    /\ pc = "write_rows"
    /\ max_workers > 1
    /\ Len(tasks) > 1
    /\ Len(result_file.rows) = 2

\* C15: with a heuristic name that is no registered scoring function, or a
\* dataset root that cannot be read, the run aborts before the result table
\* is read or written and before any unit is dispatched.
C15_ConfigErrorAbortsEarly ==
    (~IsHeuristic(heuristic_name) \/ ~root_ok)
        => /\ cache = "none"
           /\ tasks = <<>>
           /\ ~opened
           /\ result_file = file0

\* C16: a line that is not JSON, in a file whose container is otherwise
\* read without an exception, is not skipped: the decode error leaves
\* read_gzipped_file and combat_dir_iterator, whatever the files read before
\* it yielded, and no warning is logged for that file.
C16_BadLinePropagates ==
    (/\ out.outcome # "pending"
     /\ ~NoBadLine(combat_dir)
     /\ EndsIn(combat_dir, {"eof", "badgzip"}))
        => /\ out.outcome = "raised"
           /\ \A n \in out.warned : NoBadLine(n :> combat_dir[n])
C16_Witness ==
    /\ out.outcome = "raised"
    /\ out.events # <<>>
    /\ "a.gz" \in DOMAIN combat_dir /\ "b.gz" \in DOMAIN combat_dir
    /\ NoBadLine("a.gz" :> combat_dir["a.gz"])
    /\ combat_dir["a.gz"].end = "eof"
    /\ ~NoBadLine("b.gz" :> combat_dir["b.gz"])

\* C17: every run that has started eventually ends, done or failed.
C17_RunTerminates == (pc \in InRun) ~> (pc \in {"done", "failed"})
C17_Witness ==
    /\ pc = "failed"
    /\ \E c \in DOMAIN tasks : tasks[c] = "raised"
    /\ \E c \in DOMAIN tasks : tasks[c] = "queued"

\* C18: whenever a run reports a cache hit, the unit identifiers of the
\* stored table are exactly the unit directories under the dataset root.
C18_HitCoversUnits ==
    cache = "hit" =>
        {result_file.rows[k][1] : k \in 2..Len(result_file.rows)}
            = {basename(u) : u \in get_combat_dirs(data)}

====
